---- MODULE Spec2Model ----
(***************************************************************************)
(* Model of src/src/main.rs: the conversation loop of main, the context    *)
(* trimming of trim_context, the remote call ask_qwen and the store        *)
(* save_conversation.                                                      *)
(*                                                                         *)
(* A Message is a record [role, content]; content is a string and          *)
(* content.len() is Len(content) (ASCII contents, one byte per character). *)
(* Vec indices are 0-based in the source; FirstIndex and Drain keep the    *)
(* 0-based numbers and convert when they touch a TLA+ sequence.            *)
(***************************************************************************)
EXTENDS Integers, Sequences, FiniteSets, TLC

VARIABLES
    history,    \* conversation.history
    pc,         \* position of main: "read", "sending", "prompt", "done", "panicked"
    budget,     \* config.max_context_tokens
    input,      \* the chat line being sent (input.trim()); "" when none is pending
    before,     \* history as it was before the pending chat line's push; <<>> when none
    last,       \* the branch of main taken last
    file,       \* JSON written by the last successful save_conversation, NoFile before
    answer,     \* the line read at the save prompt (answer.trim()), NoAnswer before
    tin,        \* trim harness: the argument given to trim_context
    tout,       \* trim harness: messages after the first call
    tout2,      \* trim harness: messages after a second call
    tphase,     \* trim harness: "input", "once", "twice", "panic"; "idle" in the session
    aresp,      \* ask_qwen harness: what the network gives back for the POST
    aresult     \* ask_qwen harness: <<>> before the call, <<Result>> after it

vars == <<history, pc, budget, input, before, last, file, answer,
          tin, tout, tout2, tphase, aresp, aresult>>

sessionVars == <<history, pc, input, before, last, file, answer>>
trimVars == <<tin, tout, tout2, tphase>>
askVars == <<aresp, aresult>>
harnessVars == <<trimVars, askVars>>

----------------------------------------------------------------------------
(* Bounds *)

MaxBudget == 2      \* budgets 0..MaxBudget
MaxLen == 5         \* longest argument of trim_context in the trim harness

Budgets == 0..MaxBudget

Roles == {"system", "user", "assistant"}

\* the content of the system turn built by main
SystemPrompt == "ss"

\* chat lines a user can type (non-empty after trim, not a command)
ChatInputs == {"a", "cccc"}

\* contents the remote model can put in choices[i].message.content
Replies == {"r", "rrrr"}

\* contents of the turns given to trim_context by the trim harness
TrimContents == {"a", "cccc"}

NoFile == <<"nofile">>

NoAnswer == "<unread>"

----------------------------------------------------------------------------
(* Message and the Vec operations used by main and trim_context *)

Message(r, c) == [role |-> r, content |-> c]

\* Vec::push
Push(messages, msg) == Append(messages, msg)

\* Vec::pop: the Vec afterwards; popping an empty Vec leaves it empty
PopRest(messages) ==
    IF messages = <<>> THEN <<>> ELSE SubSeq(messages, 1, Len(messages) - 1)

----------------------------------------------------------------------------
(* trim_context *)

\* variant of EarlyReturn: the threshold one lower (<= 1)
EarlyReturnAtOne(messages) == Len(messages) <= 1

\* if messages.len() <= 2 { return; }
EarlyReturn(messages) == Len(messages) <= 2

\* variant of Retain: the length comparison inverted (>=)
RetainInverted(messages, max_tokens) ==
    SelectSeq(messages,
              LAMBDA msg : msg.role = "system" \/ Len(msg.content) >= max_tokens)

\* variant of Retain: no exemption for the system role
RetainNoExemption(messages, max_tokens) ==
    SelectSeq(messages, LAMBDA msg : Len(msg.content) <= max_tokens)

\* messages.retain(|msg| msg.role == "system" || msg.content.len() <= max_tokens)
Retain(messages, max_tokens) ==
    SelectSeq(messages,
              LAMBDA msg : msg.role = "system" \/ Len(msg.content) <= max_tokens)

\* messages.iter().position(|msg| msg.role != "system").unwrap_or(1), 0-based
FirstIndex(messages) ==
    IF \E i \in 1..Len(messages) : messages[i].role # "system"
    THEN (CHOOSE i \in 1..Len(messages) :
              /\ messages[i].role # "system"
              /\ \A j \in 1..(i - 1) : messages[j].role = "system") - 1
    ELSE 1

\* variant of DrainStart: the drain starts after the index found
DrainStartAfter(messages) == FirstIndex(messages) + 1

\* the range first_index..messages.len()-2 given to drain, 0-based, end exclusive
DrainStart(messages) == FirstIndex(messages)

\* variant of DrainEnd: three trailing turns are kept
DrainEndKeepsThree(messages) == Len(messages) - 3

\* variant of DrainEnd: one trailing turn is kept
DrainEndKeepsOne(messages) == Len(messages) - 1

DrainEnd(messages) == Len(messages) - 2

\* Vec::drain(start..end) panics when start > end (end <= len holds here)
DrainPanics(messages) == DrainStart(messages) > DrainEnd(messages)

\* variant of Drain: only the element at start is removed (Vec::remove(start))
DrainOne(messages, start, end) ==
    SubSeq(messages, 1, start) \o SubSeq(messages, start + 2, Len(messages))

\* Vec::drain(start..end): elements start..end-1 (0-based) are removed
Drain(messages, start, end) ==
    SubSeq(messages, 1, start) \o SubSeq(messages, end + 1, Len(messages))

\* if messages.len() > 3 { ... drain ... }
Window(messages) ==
    IF Len(messages) > 3
    THEN Drain(messages, DrainStart(messages), DrainEnd(messages))
    ELSE messages

\* trim_context panics (the drain range is inverted)
TrimPanics(messages, max_tokens) ==
    /\ ~EarlyReturn(messages)
    /\ Len(Retain(messages, max_tokens)) > 3
    /\ DrainPanics(Retain(messages, max_tokens))

\* messages after trim_context returns
trim_context(messages, max_tokens) ==
    IF EarlyReturn(messages)
    THEN messages
    ELSE Window(Retain(messages, max_tokens))

----------------------------------------------------------------------------
(* ask_qwen: the outcome as a function of what the network gives back *)

\* HTTP status codes the remote end answers with
Statuses == {200, 204, 404, 500}

\* what the remote end and the transport can produce for one POST
Responses ==
    [sent : BOOLEAN,            \* send() returned Ok
     status : Statuses,         \* response.status()
     decodes : BOOLEAN,         \* text() and serde_json::from_str both return Ok
     choices : {<<>>} \cup {<<r>> : r \in Replies}
                      \cup {<<r, "x">> : r \in Replies}]

\* no POST made
NoResponse == [sent |-> FALSE, status |-> 0, decodes |-> FALSE, choices |-> <<>>]

\* variant of is_success: no upper limit on the status
is_success_no_upper(status) == status >= 200

\* StatusCode::is_success
is_success(status) == status >= 200 /\ status <= 299

\* the Result of ask_qwen: [ok |-> TRUE, reply |-> content] or [ok |-> FALSE]
ask_qwen(resp) ==
    IF ~resp.sent THEN [ok |-> FALSE, reply |-> ""]
    ELSE IF ~is_success(resp.status) THEN [ok |-> FALSE, reply |-> ""]
    ELSE IF ~resp.decodes THEN [ok |-> FALSE, reply |-> ""]
    ELSE IF resp.choices = <<>> THEN [ok |-> FALSE, reply |-> ""]
    ELSE [ok |-> TRUE, reply |-> resp.choices[1]]

----------------------------------------------------------------------------
(* save_conversation: serde_json::to_string_pretty(&conversation), and the  *)
(* reading back that #[derive(Deserialize)] on Conversation gives.          *)
(* A JSON object is the sequence of its <<key, value>> members in the       *)
(* struct's field order, a JSON array a sequence, a JSON string the quoted  *)
(* text <<"\"", text, "\"">>.                                               *)

\* conversation.timestamp, set once when main builds the Conversation
Timestamp == "t0"

\* the Conversation value main owns
Conversation == [timestamp |-> Timestamp, history |-> history]

\* a String field written as a JSON string
JsonString(text) == <<"\"", text, "\"">>

\* Serialize for Message: {"role": ..., "content": ...}
serialize_message(msg) ==
    << <<"role", JsonString(msg.role)>>, <<"content", JsonString(msg.content)>> >>

\* variant of to_string_pretty: the first turn is left out of "history"
to_string_pretty_skip_first(conversation) ==
    << <<"timestamp", JsonString(conversation.timestamp)>>,
       <<"history", [i \in 1..(Len(conversation.history) - 1) |->
                        serialize_message(conversation.history[i + 1])]>> >>

\* Serialize for Conversation: {"timestamp": ..., "history": [...]}
to_string_pretty(conversation) ==
    << <<"timestamp", JsonString(conversation.timestamp)>>,
       <<"history", [i \in 1..Len(conversation.history) |->
                        serialize_message(conversation.history[i])]>> >>

\* the value of the member named key of a JSON object
Field(object, key) ==
    object[CHOOSE i \in 1..Len(object) : object[i][1] = key][2]

\* the text of a JSON string
Unquote(jsonString) == jsonString[2]

\* Deserialize for Message
deserialize_message(object) ==
    [role |-> Unquote(Field(object, "role")),
     content |-> Unquote(Field(object, "content"))]

\* Deserialize for Conversation (serde_json::from_str::<Conversation>)
from_str(document) ==
    [timestamp |-> Unquote(Field(document, "timestamp")),
     history |-> [i \in 1..Len(Field(document, "history")) |->
                     deserialize_message(Field(document, "history")[i])]]

\* what fs::write leaves in the file named by save_conversation
save_conversation(ok) == IF ok THEN to_string_pretty(Conversation) ELSE file

----------------------------------------------------------------------------
(* main: the conversation loop *)

Running == {"read", "sending"}

Init ==
    /\ history = <<Message("system", SystemPrompt)>>
    /\ pc = "read"
    /\ budget \in Budgets
    /\ input = ""
    /\ before = <<>>
    /\ last = "start"
    /\ file = NoFile
    /\ answer = NoAnswer
    /\ tin = <<>>
    /\ tout = <<>>
    /\ tout2 = <<>>
    /\ tphase = "idle"
    /\ aresp = NoResponse
    /\ aresult = <<>>

\* "/exit" | "/quit" => break
ExitCmd(line) ==
    /\ pc = "read"
    /\ line \in {"/exit", "/quit"}
    /\ last' = "exit"
    /\ pc' = "prompt"
    /\ UNCHANGED <<history, budget, input, before, file>>
    /\ UNCHANGED <<answer, harnessVars>>

\* variant of SaveCmd: the arm also calls trim_context on the history
SaveCmdTrims(ok) ==
    /\ pc = "read"
    /\ file' = save_conversation(ok)
    /\ last' = IF ok THEN "save_ok" ELSE "save_err"
    /\ pc' = "read"
    /\ history' = trim_context(history, budget)
    /\ UNCHANGED <<budget, input, before>>
    /\ UNCHANGED <<answer, harnessVars>>

\* "/save" => save_conversation, continue
SaveCmd(ok) ==
    /\ pc = "read"
    /\ file' = save_conversation(ok)
    /\ last' = IF ok THEN "save_ok" ELSE "save_err"
    /\ pc' = "read"
    /\ UNCHANGED <<history, budget, input, before>>
    /\ UNCHANGED <<answer, harnessVars>>

\* _ if input.is_empty() => continue
EmptyInput ==
    /\ pc = "read"
    /\ last' = "empty"
    /\ pc' = "read"
    /\ UNCHANGED <<history, budget, input, before, file>>
    /\ UNCHANGED <<answer, harnessVars>>

\* any other line: push the user turn, trim_context, enter ask_qwen with
\* &conversation.history as the request's messages
Chat(line) ==
    /\ pc = "read"
    /\ line \in ChatInputs
    /\ input' = line
    /\ before' = history
    /\ last' = "chat"
    /\ LET pushed == Push(history, Message("user", line)) IN
         IF TrimPanics(pushed, budget)
         THEN /\ pc' = "panicked"
              /\ history' = pushed
         ELSE /\ pc' = "sending"
              /\ history' = trim_context(pushed, budget)
    /\ UNCHANGED <<budget, file>>
    /\ UNCHANGED <<answer, harnessVars>>

\* variant of SendOk: the reply is pushed with the role of the user turn
SendOkAsUser(resp) ==
    /\ pc = "sending"
    /\ ask_qwen(resp).ok
    /\ history' = Push(history, Message("user", ask_qwen(resp).reply))
    /\ last' = "send_ok"
    /\ pc' = "read"
    /\ input' = ""
    /\ before' = <<>>
    /\ UNCHANGED <<budget, file>>
    /\ UNCHANGED <<answer, harnessVars>>

\* Ok((response, tokens)) => push the assistant turn, next iteration
SendOk(resp) ==
    /\ pc = "sending"
    /\ ask_qwen(resp).ok
    /\ history' = Push(history, Message("assistant", ask_qwen(resp).reply))
    /\ last' = "send_ok"
    /\ pc' = "read"
    /\ input' = ""
    /\ before' = <<>>
    /\ UNCHANGED <<budget, file>>
    /\ UNCHANGED <<answer, harnessVars>>

\* variant of SendErr: the error arm calls ask_qwen again instead of going on
SendErrRetry(resp) ==
    /\ pc = "sending"
    /\ ~ask_qwen(resp).ok
    /\ history' = history
    /\ last' = "send_err"
    /\ pc' = "sending"
    /\ UNCHANGED <<budget, input, before, file>>
    /\ UNCHANGED <<answer, harnessVars>>

\* variant of SendErr: the error arm does not pop
SendErrNoPop(resp) ==
    /\ pc = "sending"
    /\ ~ask_qwen(resp).ok
    /\ history' = history
    /\ last' = "send_err"
    /\ pc' = "read"
    /\ input' = ""
    /\ before' = <<>>
    /\ UNCHANGED <<budget, file>>
    /\ UNCHANGED <<answer, harnessVars>>

\* variant of SendErr: the error arm leaves the loop (break)
SendErrBreak(resp) ==
    /\ pc = "sending"
    /\ ~ask_qwen(resp).ok
    /\ history' = PopRest(history)
    /\ last' = "send_err"
    /\ pc' = "prompt"
    /\ input' = ""
    /\ before' = <<>>
    /\ UNCHANGED <<budget, file>>
    /\ UNCHANGED <<answer, harnessVars>>

\* Err(e) => conversation.history.pop(), next iteration
SendErr(resp) ==
    /\ pc = "sending"
    /\ ~ask_qwen(resp).ok
    /\ history' = PopRest(history)
    /\ last' = "send_err"
    /\ pc' = "read"
    /\ input' = ""
    /\ before' = <<>>
    /\ UNCHANGED <<budget, file>>
    /\ UNCHANGED <<answer, harnessVars>>

\* lines a user can type at the save prompt, after answer.trim()
Answers == {"y", "Y", "", "n", "N", "yes"}

\* str::to_ascii_lowercase on the answers
to_ascii_lowercase(ans) ==
    CASE ans = "Y" -> "y"
      [] ans = "N" -> "n"
      [] OTHER -> ans

\* str::eq_ignore_ascii_case
eq_ignore_ascii_case(x, y) == to_ascii_lowercase(x) = to_ascii_lowercase(y)

\* variant of SaveWanted: the comparison with "y" is case-sensitive
SaveWantedCaseSensitive(ans) == ans = "y" \/ ans = ""

\* answer.trim().eq_ignore_ascii_case("y") || answer.trim().is_empty()
SaveWanted(ans) == eq_ignore_ascii_case(ans, "y") \/ ans = ""

\* after the loop: the save prompt, save_conversation when wanted, then return
Answer(ans, ok) ==
    /\ pc = "prompt"
    /\ ans \in Answers
    /\ answer' = ans
    /\ IF SaveWanted(ans)
       THEN /\ file' = save_conversation(ok)
            /\ last' = IF ok THEN "exit_save_ok" ELSE "exit_save_err"
       ELSE /\ file' = file
            /\ last' = "exit_nosave"
    /\ pc' = "done"
    /\ UNCHANGED <<history, budget, input, before>>
    /\ UNCHANGED harnessVars

Next ==
    \/ \E line \in {"/exit", "/quit"} : ExitCmd(line)
    \/ \E ok \in BOOLEAN : SaveCmd(ok)
    \/ EmptyInput
    \/ \E line \in ChatInputs : Chat(line)
    \/ \E resp \in Responses : SendOk(resp)
    \/ \E resp \in Responses : SendErr(resp)
    \/ \E ans \in Answers, ok \in BOOLEAN : Answer(ans, ok)

Spec == Init /\ [][Next]_vars

----------------------------------------------------------------------------
(* trim_context on its own: every bounded argument, called once and twice *)

Messages == [role : Roles, content : TrimContents]

RECURSIVE SeqsUpTo(_)
SeqsUpTo(n) ==
    IF n = 0 THEN {<<>>}
    ELSE LET shorter == SeqsUpTo(n - 1) IN
         shorter \cup {Append(s, m) : s \in {t \in shorter : Len(t) = n - 1},
                                      m \in Messages}

TrimInit ==
    /\ history = <<Message("system", SystemPrompt)>>
    /\ pc = "read"
    /\ budget \in Budgets
    /\ input = ""
    /\ before = <<>>
    /\ last = "start"
    /\ file = NoFile
    /\ answer = NoAnswer
    /\ tin \in SeqsUpTo(MaxLen)
    /\ tout = <<>>
    /\ tout2 = <<>>
    /\ tphase = "input"
    /\ aresp = NoResponse
    /\ aresult = <<>>

\* trim_context(&mut tin, budget) returns
TrimOnce ==
    /\ tphase = "input"
    /\ ~TrimPanics(tin, budget)
    /\ tout' = trim_context(tin, budget)
    /\ tphase' = "once"
    /\ UNCHANGED <<tin, tout2, budget>>
    /\ UNCHANGED <<sessionVars, askVars>>

\* trim_context(&mut tin, budget) panics in drain
TrimFault ==
    /\ tphase = "input"
    /\ TrimPanics(tin, budget)
    /\ tphase' = "panic"
    /\ UNCHANGED <<tin, tout, tout2, budget>>
    /\ UNCHANGED <<sessionVars, askVars>>

\* a second trim_context on the result of the first returns
TrimTwice ==
    /\ tphase = "once"
    /\ ~TrimPanics(tout, budget)
    /\ tout2' = trim_context(tout, budget)
    /\ tphase' = "twice"
    /\ UNCHANGED <<tin, tout, budget>>
    /\ UNCHANGED <<sessionVars, askVars>>

TrimNext == TrimOnce \/ TrimFault \/ TrimTwice

TrimSpec == TrimInit /\ [][TrimNext]_vars

----------------------------------------------------------------------------
(* ask_qwen on its own: every response of the bounded set *)

AskInit ==
    /\ history = <<Message("system", SystemPrompt)>>
    /\ pc = "read"
    /\ budget = 0
    /\ input = ""
    /\ before = <<>>
    /\ last = "start"
    /\ file = NoFile
    /\ answer = NoAnswer
    /\ tin = <<>>
    /\ tout = <<>>
    /\ tout2 = <<>>
    /\ tphase = "idle"
    /\ aresp \in Responses
    /\ aresult = <<>>

\* ask_qwen returns Ok((content, tokens))
AskOk ==
    /\ aresult = <<>>
    /\ ask_qwen(aresp).ok
    /\ aresult' = <<ask_qwen(aresp)>>
    /\ UNCHANGED <<aresp, budget, sessionVars, trimVars>>

\* ask_qwen returns Err
AskErr ==
    /\ aresult = <<>>
    /\ ~ask_qwen(aresp).ok
    /\ aresult' = <<ask_qwen(aresp)>>
    /\ UNCHANGED <<aresp, budget, sessionVars, trimVars>>

AskNext == AskOk \/ AskErr

AskSpec == AskInit /\ [][AskNext]_vars

----------------------------------------------------------------------------
(* Vocabulary of the properties *)

\* a turn whose content is longer than the budget b and whose role is not system
Oversized(msg, b) == msg.role # "system" /\ Len(msg.content) > b

\* the number of system turns of a turn list
SystemCount(turns) == Cardinality({i \in 1..Len(turns) : turns[i].role = "system"})

\* one system turn first, then user/assistant turns only
IsConversation(turns) ==
    /\ Len(turns) >= 1
    /\ turns[1].role = "system"
    /\ SystemCount(turns) = 1

\* the turns that pass the step-2 length filter
Survivors(turns, b) == SelectSeq(turns, LAMBDA msg : ~Oversized(msg, b))

\* the last two turns of a list of at least two
LastTwo(turns) == SubSeq(turns, Len(turns) - 1, Len(turns))

\* a is an order-preserving subsequence of b
RECURSIVE IsSubseq(_, _)
IsSubseq(a, b) ==
    IF a = <<>> THEN TRUE
    ELSE IF b = <<>> THEN FALSE
    ELSE IF Head(a) = Head(b) THEN IsSubseq(Tail(a), Tail(b))
    ELSE IsSubseq(a, Tail(b))

----------------------------------------------------------------------------
(* C1..C10 *)

\* C1: in every reachable state of the session the turn list is non-empty,
\* its first turn has role system and it holds exactly one system turn.
C1_SystemTurnNeverRemoved ==
    /\ history # <<>>
    /\ history[1].role = "system"
    /\ SystemCount(history) = 1

\* C2: when a send fails, the turn list after recovery equals the turn list
\* as it was immediately before the failed input's user turn was appended.
C2_FailedExchangeLeavesNoTrace ==
    [][(pc = "sending" /\ last' = "send_err") => history' = before]_vars

\* C3: on a send failure the turn removed by the rollback is the user turn
\* appended for that input, never an earlier turn, an assistant turn or the
\* system turn.
C3_RollbackRemovesOwnUserTurn ==
    [][(pc = "sending" /\ last' = "send_err")
          => /\ history # <<>>
             /\ history[Len(history)] = Message("user", input)
             /\ history' = SubSeq(history, 1, Len(history) - 1)]_vars

\* C4 as stated: every request sent holds no non-system turn longer than the
\* budget.
C4_EveryRequestWithinBudget ==
    pc = "sending" => \A i \in 1..Len(history) : ~Oversized(history[i], budget)

\* C4 amended: a request sent for an input read when the turn list already
\* held at least two turns holds no non-system turn longer than the budget.
C4_TrimmedRequestWithinBudget ==
    (pc = "sending" /\ Len(before) >= 2)
        => \A i \in 1..Len(history) : ~Oversized(history[i], budget)

\* a request is pending for an input read with two or more turns present, and
\* an oversized turn was among those handed to the trim
C4_Witness ==
    /\ pc = "sending"
    /\ Len(before) >= 2
    /\ \/ Oversized(Message("user", input), budget)
       \/ \E i \in 1..Len(before) : Oversized(before[i], budget)

\* C5 as stated: when more than 3 turns of a conversation survive the length
\* filter, trim leaves the system turn, the first non-system survivor and the
\* final two survivors.
C5_KeepsFirstSurvivor ==
    (tphase = "once" /\ IsConversation(tin) /\ Len(Survivors(tin, budget)) > 3)
        => tout = <<tin[1], Survivors(tin, budget)[2]>>
                      \o LastTwo(Survivors(tin, budget))

\* C5 amended: when more than 3 turns of a conversation survive the length
\* filter, trim leaves the system turn and the final two survivors, in that
\* order; the first non-system survivor is dropped with the turns after it.
C5_KeepsSystemAndLastTwo ==
    (tphase = "once" /\ IsConversation(tin) /\ Len(Survivors(tin, budget)) > 3)
        => tout = <<tin[1]>> \o LastTwo(Survivors(tin, budget))

\* trim has run on a conversation of five turns of which four survived the
\* filter
C5_Witness ==
    /\ tphase = "once"
    /\ IsConversation(tin)
    /\ Len(tin) = 5
    /\ Len(Survivors(tin, budget)) = 4
    /\ Len(tout) = 3

\* C6: on every turn sequence over the three roles and every budget trim
\* completes without a fault, and when the step-3 range is empty or inverted
\* it deletes nothing in step 3.
C6_TrimNeverFaults ==
    /\ tphase # "panic"
    /\ (/\ tphase = "once"
        /\ Len(tin) > 2
        /\ Len(Survivors(tin, budget)) > 3
        /\ FirstIndex(Survivors(tin, budget)) >= Len(Survivors(tin, budget)) - 2)
           => tout = Survivors(tin, budget)

\* C7: trim leaves a turn list of at most 2 turns unchanged, whatever the
\* budget and the lengths of its contents.
C7_ShortListUnchanged ==
    (tphase \in {"once", "twice"} /\ Len(tin) <= 2) => tout = tin

\* trim has run on a list of two turns one of which is oversized
C7_Witness ==
    /\ tphase = "once"
    /\ Len(tin) = 2
    /\ \E i \in 1..2 : Oversized(tin[i], budget)
    /\ tout = tin

\* C8: for a conversation (non-empty, its first turn the only system turn)
\* trim completes and the first turn of the result is that system turn.
C8_SystemTurnStaysFirst ==
    IsConversation(tin)
        => /\ tphase # "panic"
           /\ tphase = "once" => (tout # <<>> /\ tout[1] = tin[1])

\* trim has run and removed turns from a conversation whose system turn is
\* itself longer than the budget
C8_Witness ==
    /\ tphase = "once"
    /\ IsConversation(tin)
    /\ Len(tin[1].content) > budget
    /\ Len(tout) < Len(tin)
    /\ tout[1] = tin[1]

\* C9: on a turn list with at most one system turn (every conversation is
\* one), a second trim with the same budget completes and leaves the result
\* of the first trim unchanged.
C9_TrimIdempotent ==
    SystemCount(tin) <= 1
        => /\ tphase # "panic"
           /\ tphase = "once" => ~TrimPanics(tout, budget)
           /\ tphase = "twice" => tout2 = tout

\* trim has run twice on a conversation that the first run both filtered and
\* windowed
C9_Witness ==
    /\ tphase = "twice"
    /\ IsConversation(tin)
    /\ Len(tin) = 5
    /\ Len(Survivors(tin, budget)) = 4
    /\ Len(tout) = 3
    /\ tout2 = tout

\* C10: after a failed send or a failed /save the loop is at its input read
\* again, and the session leaves Running only by reading /exit or /quit.
C10_FailuresKeepRunning ==
    [][/\ last' \in {"send_err", "save_err"} => pc' = "read"
       /\ (pc \in Running /\ pc' \notin Running)
             => (last' = "exit" /\ pc' = "prompt")]_vars

\* a send has failed and the loop is reading the next input
C10_Witness ==
    /\ last = "send_err"
    /\ pc = "read"

----------------------------------------------------------------------------
(* C11..C20 *)

\* C11: each chat input causes exactly one send attempt, made before the
\* next input is read: a chat line puts the loop in ask_qwen, the loop leaves
\* ask_qwen for the input read (no second attempt, no retry after a failure),
\* and nothing but a chat line starts a send.
C11_OneSendPerChatInput ==
    [][/\ (pc = "read" /\ last' = "chat") => pc' = "sending"
       /\ pc = "sending" => pc' = "read"
       /\ pc' = "sending" => (pc = "read" /\ last' = "chat")
       /\ (pc = "read" /\ last' \in {"save_ok", "save_err", "empty", "exit"})
             => pc' # "sending"]_vars

\* a send has failed and the loop reads the next input without a new send
C11_Witness ==
    /\ pc = "read"
    /\ last = "send_err"
    /\ input = ""

\* C12: after a successful save the file read back gives exactly the turn
\* list in memory at the save, system turn included, in order.
C12_SaveRoundTrip ==
    last \in {"save_ok", "exit_save_ok"}
        => /\ file # NoFile
           /\ from_str(file).history = history
           /\ from_str(file) = Conversation

\* a /save has succeeded on a list holding the system turn and two more
C12_Witness ==
    /\ last = "save_ok"
    /\ Len(history) >= 3
    /\ history[1].role = "system"
    /\ Len(Field(file, "history")) = Len(history)

\* C13: once /exit or /quit is read the session never returns to the loop
\* (no chat input, no send); the prompt is answered once, one save attempt
\* is made exactly when the answer is "y" in any case or empty, and the
\* session has then terminated.
C13_ExitPromptsOnceThenTerminates ==
    [][/\ pc \in {"prompt", "done"} => pc' \notin Running
       /\ pc = "prompt"
             => /\ pc' = "done"
                /\ history' = history
                /\ (last' \in {"exit_save_ok", "exit_save_err"})
                       <=> (answer' \in {"y", "Y", ""})
                /\ (last' = "exit_nosave") <=> (answer' \notin {"y", "Y", ""})
                /\ last' # "exit_save_ok" => file' = file
       /\ pc # "done"]_vars

\* the session has terminated after an upper-case "Y" made it save
C13_Witness ==
    /\ pc = "done"
    /\ answer = "Y"
    /\ last = "exit_save_ok"

\* C14: on a successful send the turn list afterwards is the turn sequence of
\* the request followed by one assistant turn carrying a reply text, nothing
\* else added, removed or reordered.
C14_SuccessAppendsOneAssistantTurn ==
    [][(pc = "sending" /\ last' = "send_ok")
          => \E r \in Replies :
                 history' = history \o <<[role |-> "assistant", content |-> r]>>]_vars

\* a send has succeeded on a request of three turns
C14_Witness ==
    /\ last = "send_ok"
    /\ pc = "read"
    /\ Len(history) = 4
    /\ history[4].role = "assistant"

\* C15: a /save, succeeding or failing, and an empty line leave the turn list
\* unchanged (no trim) and the session Running.
C15_SaveAndEmptyAreNoOps ==
    [][(pc = "read" /\ last' \in {"save_ok", "save_err", "empty"})
          => (history' = history /\ pc' \in Running)]_vars

\* a /save has failed on a turn list that a trim would have changed
C15_Witness ==
    /\ last = "save_err"
    /\ pc = "read"
    /\ ~TrimPanics(history, budget)
    /\ trim_context(history, budget) # history

\* C16: ask_qwen returns a reply exactly when the POST got a response with a
\* success status, a body that decodes and non-empty choices, and the reply
\* is the first choice's content; a non-success status is an error whatever
\* the body holds, and so is a success status with empty choices.
C16_ReplyIffSuccessDecodedNonEmpty ==
    aresult # <<>>
        => /\ aresult[1].ok <=> (/\ aresp.sent
                                 /\ aresp.status \in 200..299
                                 /\ aresp.decodes
                                 /\ aresp.choices # <<>>)
           /\ aresult[1].ok => aresult[1].reply = aresp.choices[1]
           /\ aresp.status \notin 200..299 => ~aresult[1].ok
           /\ aresp.choices = <<>> => ~aresult[1].ok

\* ask_qwen has returned an error for a 404 whose body decodes and holds a
\* choice
C16_Witness ==
    /\ aresult # <<>>
    /\ aresp.sent
    /\ aresp.status = 404
    /\ aresp.decodes
    /\ aresp.choices # <<>>
    /\ ~aresult[1].ok

\* C17: after a failed send every turn left in the list was in the list
\* before the failed input was pushed (order kept), and a file is written
\* only while no exchange is pending, with the list of that moment.
C17_NoFailedTurnInSavedFile ==
    [][/\ (pc = "sending" /\ last' = "send_err") => IsSubseq(history', before)
       /\ file' # file
             => /\ pc \in {"read", "prompt"}
                /\ input = ""
                /\ from_str(file').history = history]_vars

\* a failed send has been rolled back on a list that still holds turns to
\* save
C17_Witness ==
    /\ last = "send_err"
    /\ pc = "read"
    /\ Len(history) >= 2
    /\ history[1].role = "system"

\* C18: the turn sequence sent for a chat input ends with the user turn
\* carrying that input.
C18_RequestEndsWithInput ==
    pc = "sending"
        => /\ history # <<>>
           /\ history[Len(history)] = [role |-> "user", content |-> input]

\* C19: every request holds at most 3 turns, and the turn list holds at most
\* 4 turns whenever the loop waits for input.
C19_RequestAndListBounded ==
    /\ pc = "sending" => Len(history) <= 3
    /\ pc = "read" => Len(history) <= 4

\* a request of three turns is pending for an input read with four turns
\* in the list
C19_Witness ==
    /\ pc = "sending"
    /\ Len(before) = 4
    /\ Len(history) = 3

\* C20: when trim completes its result is an order-preserving subsequence of
\* its argument, and when at least two turns pass the length filter the last
\* two of them are the last two turns of the result.
C20_SubsequenceKeepingLastTwo ==
    tphase = "once"
        => /\ IsSubseq(tout, tin)
           /\ Len(Survivors(tin, budget)) >= 2
                 => (Len(tout) >= 2
                     /\ LastTwo(tout) = LastTwo(Survivors(tin, budget)))

\* trim has completed on five turns without a system turn, dropping an
\* oversized one and windowing the rest
C20_Witness ==
    /\ tphase = "once"
    /\ Len(tin) = 5
    /\ SystemCount(tin) = 0
    /\ Len(Survivors(tin, budget)) = 4
    /\ Len(tout) < 4

====
